---- MODULE Spec2Model ----
(***************************************************************************)
(* Model of pandas_log/pandas_log.py: the activation controller            *)
(* (auto_enable, auto_disable, the `enable` and `disable` context          *)
(* managers) over the method tables of pd.DataFrame and pd.Series, and the *)
(* instrumented wrapper (_run_method_and_calc_stats) that enable installs. *)
(***************************************************************************)
EXTENDS Integers, Sequences, FiniteSets, TLC

VARIABLES
    ALREADY_ENABLED,                \* module global, pandas_log.py:21
    attrs,                          \* class attributes of pd.DataFrame / pd.Series
    DATAFRAME_METHODS_TO_OVERIDE,   \* settings list that auto_enable extends
    extrasLoaded,                   \* pandas_log.extras has been imported
    scopes,                         \* open `with enable(..)` / `with disable()` blocks
    pc,                             \* position of the intercepted call in flight
    call,                           \* locals of the call in flight
    heap,                           \* containers: object id -> rows
    log,                            \* persisted pipeline log
    reports,                        \* Reporter invocations (log_stats_if_needed)
    outcome,                        \* what the last call handed to its caller
    ncalls,                         \* method calls made so far
    lastOp                          \* the caller's last statement; auto_enable
                                    \* is told apart by whether it found the
                                    \* flag set, and whether the statement
                                    \* before was the auto_enable that set it

vars == <<ALREADY_ENABLED, attrs, DATAFRAME_METHODS_TO_OVERIDE, extrasLoaded,
          scopes, pc, call, heap, log, reports, outcome, ncalls, lastOp>>

regVars  == <<ALREADY_ENABLED, attrs, DATAFRAME_METHODS_TO_OVERIDE, extrasLoaded>>
callVars == <<pc, call, heap, log, reports, outcome, ncalls>>

----------------------------------------------------------------------------
(* Bounds *)

MaxEnables == 2     \* effective auto_enable calls (each one grows the allow-list)
MaxDepth   == 2     \* nesting depth of open context managers
MaxCalls   == 2     \* method calls made by the caller
MaxRows    == 1     \* rows of a container

----------------------------------------------------------------------------
(* settings and the pandas classes *)

ORIGINAL_METHOD_PREFIX    == "original_"
PATCHED_LOG_METHOD_PREFIX == "patched_log_"
NoPrefix                  == ""
Prefixes == {NoPrefix, ORIGINAL_METHOD_PREFIX, PATCHED_LOG_METHOD_PREFIX}

DataFrame == "pd.DataFrame"
Series    == "pd.Series"
Classes   == {DataFrame, Series}

\* method names; Series.copy is a pandas method that is on no allow-list
Names == {"dropna", "copy"}

InitialDataframeMethods                 == <<"dropna">>
DATAFRAME_ADDITIONAL_METHODS_TO_OVERIDE == <<"copy">>
SERIES_METHODS_TO_OVERIDE               == <<"dropna">>

Range(s) == {s[i] : i \in DOMAIN s}

\* a class attribute: pandas' own implementation, an instrumented wrapper
\* (a closure over the options it was created with), or no attribute
Original == [kind |-> "original"]
Absent   == [kind |-> "absent"]
Wrapper(cfg, gen) == [kind |-> "wrapped", cfg |-> cfg, gen |-> gen]

IsWrapper(b) == b.kind = "wrapped"

\* options captured by a wrapper
Configs == [verbose : BOOLEAN, silent : BOOLEAN, full_signature : BOOLEAN,
            copy_ok : BOOLEAN, calculate_memory : BOOLEAN]

\* the attribute table of the freshly imported pandas
PandasAttrs ==
    [c \in Classes |->
        [p \in Prefixes |->
            [n \in Names |-> IF p = NoPrefix THEN Original ELSE Absent]]]

\* dir(cls) restricted to names carrying prefix p
Dir(a, cls, p) == {n \in Names : a[cls][p][n] # Absent}

----------------------------------------------------------------------------
(* aop_utils *)

\* setattr(cls, prefix + func, getattr(cls, func))
keep_pandas_func_copy(a, cls, func, prefix) ==
    [a EXCEPT ![cls][prefix][func] = a[cls][NoPrefix][func]]

\* setattr(pd.DataFrame, func without its prefix, getattr(pd.DataFrame, func));
\* the caller passes the prefixed name and no class
restore_pandas_func_copy(a, func, prefix) ==
    [a EXCEPT ![DataFrame][NoPrefix][func] = a[DataFrame][prefix][func]]

----------------------------------------------------------------------------
(* the registry: the part of the state the activation operations work on *)

Registry == [enabled |-> ALREADY_ENABLED, attrs |-> attrs,
             methods |-> DATAFRAME_METHODS_TO_OVERIDE, extras |-> extrasLoaded]

\* number of effective auto_enable calls so far: every one of them appends
\* DATAFRAME_ADDITIONAL_METHODS_TO_OVERIDE to the allow-list once
Generation(methods) ==
    (Len(methods) - Len(InitialDataframeMethods))
        \div Len(DATAFRAME_ADDITIONAL_METHODS_TO_OVERIDE)

\* pf.register_dataframe_method / pf.register_series_method applied to
\* `wrapped`: the class attribute `func` becomes the instrumented wrapper
create_overide_pandas_func(a, cls, func, cfg, gen) ==
    [a EXCEPT ![cls][NoPrefix][func] = Wrapper(cfg, gen)]

\* one pass of `for func in dir(cls): if func in allowList: keep; override`;
\* the iterations touch disjoint attributes, so the pass is written pointwise
OverrideAll(a, cls, allowList, cfg, gen) ==
    LET todo == Dir(a, cls, NoPrefix) \cap Range(allowList)
        one(n) == create_overide_pandas_func(
                      keep_pandas_func_copy(a, cls, n, ORIGINAL_METHOD_PREFIX),
                      cls, n, cfg, gen)
    IN  [a EXCEPT ![cls] =
            [p \in Prefixes |-> [n \in Names |->
                IF n \in todo THEN one(n)[cls][p][n] ELSE a[cls][p][n]]]]

auto_enable(r, verbose, silent, full_signature, copy_ok, extras, calculate_memory) ==
    IF r.enabled THEN r
    ELSE
        LET methods == r.methods \o DATAFRAME_ADDITIONAL_METHODS_TO_OVERIDE
            cfg == [verbose |-> verbose, silent |-> silent,
                    full_signature |-> full_signature, copy_ok |-> copy_ok,
                    calculate_memory |-> calculate_memory]
            gen == Generation(methods)
            df  == OverrideAll(r.attrs, DataFrame, methods, cfg, gen)
            ser == OverrideAll(df, Series, SERIES_METHODS_TO_OVERIDE, cfg, gen)
        IN  [enabled |-> TRUE, attrs |-> ser, methods |-> methods,
             extras |-> (r.extras \/ extras)]

\* one pass of `for func in dir(pd.DataFrame): if func.startswith(prefix):
\* restore_pandas_func_copy(func, prefix)`
RestoreAll(a, prefix) ==
    [a EXCEPT ![DataFrame] =
        [p \in Prefixes |-> [n \in Names |->
            IF n \in Dir(a, DataFrame, prefix)
            THEN restore_pandas_func_copy(a, n, prefix)[DataFrame][p][n]
            ELSE a[DataFrame][p][n]]]]

\* an auto_disable that restores the methods and leaves the flag up
auto_disableKeepsFlag(r) ==
    IF ~r.enabled THEN r
    ELSE [r EXCEPT !.attrs = RestoreAll(r.attrs, ORIGINAL_METHOD_PREFIX)]

auto_disable(r) ==
    IF ~r.enabled THEN r
    ELSE [r EXCEPT !.attrs = RestoreAll(r.attrs, ORIGINAL_METHOD_PREFIX),
                   !.enabled = FALSE]

\* `enable` hands its five options to auto_enable positionally
EnableOnEntry(r, verbose, silent, full_signature, copy_ok, calculate_memory) ==
    auto_enable(r, verbose, silent, full_signature, copy_ok, calculate_memory, FALSE)

\* a `disable` that swaps without looking at the flag
SuspendSwapsAlways(enabled) == TRUE

\* the `disable` context manager takes its else branch when enabled
SuspendSwaps(enabled) == enabled

\* entry of `with disable()`: keep the patched method, restore the original
SuspendOnEntry(r) ==
    LET todo == Dir(r.attrs, DataFrame, ORIGINAL_METHOD_PREFIX)
        one(n) == restore_pandas_func_copy(
                      keep_pandas_func_copy(r.attrs, DataFrame, n,
                                            PATCHED_LOG_METHOD_PREFIX),
                      n, ORIGINAL_METHOD_PREFIX)
    IN  [r EXCEPT !.attrs = [r.attrs EXCEPT ![DataFrame] =
                    [p \in Prefixes |-> [n \in Names |->
                        IF n \in todo THEN one(n)[DataFrame][p][n]
                        ELSE r.attrs[DataFrame][p][n]]]],
                  !.enabled = FALSE]

\* an exit of `disable` that sets the flag but forgets the patched methods
SuspendOnExitFlagOnly(r) == [r EXCEPT !.enabled = TRUE]

\* the code after the yield of `disable`, run when the block was swapped
SuspendOnExit(r) ==
    [r EXCEPT !.attrs = RestoreAll(r.attrs, PATCHED_LOG_METHOD_PREFIX),
              !.enabled = TRUE]

----------------------------------------------------------------------------
(* the caller: API calls and `with` blocks, one statement at a time *)

SetRegistry(r) ==
    /\ ALREADY_ENABLED' = r.enabled
    /\ attrs' = r.attrs
    /\ DATAFRAME_METHODS_TO_OVERIDE' = r.methods
    /\ extrasLoaded' = r.extras

\* an open `with` block: which context manager, whether `disable` took its
\* swapping branch, the options the caller gave, and (for the properties)
\* ALREADY_ENABLED and the attribute table at entry and whether the registry
\* changed since
Frame(kind, swapped, cfg, entry) ==
    [kind |-> kind, swapped |-> swapped, cfg |-> cfg,
     was_enabled |-> entry.enabled, entry |-> entry.attrs, pure |-> TRUE]

NoCfg == [verbose |-> FALSE, silent |-> FALSE, full_signature |-> FALSE,
          copy_ok |-> FALSE, calculate_memory |-> FALSE]

Mark(stack, r) ==
    [i \in DOMAIN stack |->
        [stack[i] EXCEPT !.pure = stack[i].pure /\ r = Registry]]

Top(stack) == stack[Len(stack)]
Pop(stack) == SubSeq(stack, 1, Len(stack) - 1)

\* the caller moves on to its next statement: the value of the previous one
\* and the containers it worked on are dropped
NextStatement ==
    /\ outcome' = [kind |-> "none"]
    /\ heap' = <<>>
    /\ UNCHANGED <<pc, call, log, reports, ncalls>>

\* an effective auto_enable lengthens the allow-list; the model stops there
CanEnable == ALREADY_ENABLED \/ Generation(DATAFRAME_METHODS_TO_OVERIDE) < MaxEnables

AutoEnable(verbose, silent, full_signature, copy_ok, extras, calculate_memory) ==
    /\ pc = "idle"
    /\ CanEnable
    /\ LET r == auto_enable(Registry, verbose, silent, full_signature,
                            copy_ok, extras, calculate_memory)
       IN  /\ SetRegistry(r)
           /\ scopes' = Mark(scopes, r)
    /\ lastOp' = IF ~ALREADY_ENABLED THEN "auto_enable"
                 ELSE IF lastOp \in {"auto_enable", "auto_enable twice"}
                      THEN "auto_enable twice"
                      ELSE "auto_enable while enabled"
    /\ NextStatement

AutoDisable ==
    /\ pc = "idle"
    /\ LET r == auto_disable(Registry)
       IN  /\ SetRegistry(r)
           /\ scopes' = Mark(scopes, r)
    /\ lastOp' = "auto_disable"
    /\ NextStatement

\* `with enable(...):` up to the yield
EnableEnter(verbose, silent, full_signature, copy_ok, calculate_memory) ==
    /\ pc = "idle"
    /\ Len(scopes) < MaxDepth
    /\ CanEnable
    /\ LET r == EnableOnEntry(Registry, verbose, silent, full_signature,
                              copy_ok, calculate_memory)
           cfg == [verbose |-> verbose, silent |-> silent,
                   full_signature |-> full_signature, copy_ok |-> copy_ok,
                   calculate_memory |-> calculate_memory]
       IN  /\ SetRegistry(r)
           /\ scopes' = Append(Mark(scopes, r),
                               Frame("enable", FALSE, cfg, Registry))
    /\ lastOp' = "enable.enter"
    /\ NextStatement

\* the body of `with enable(...)` ends without an exception (falls off the
\* end or returns early): the generator is resumed and runs auto_disable
EnableExit ==
    /\ pc = "idle"
    /\ scopes # <<>>
    /\ Top(scopes).kind = "enable"
    /\ LET r == auto_disable(Registry)
       IN  /\ SetRegistry(r)
           /\ scopes' = Mark(Pop(scopes), r)
    /\ lastOp' = "enable.exit"
    /\ NextStatement

\* `with disable():` up to the yield
SuspendEnter ==
    /\ pc = "idle"
    /\ Len(scopes) < MaxDepth
    /\ LET swapped == SuspendSwaps(ALREADY_ENABLED)
           r == IF swapped THEN SuspendOnEntry(Registry) ELSE Registry
       IN  /\ SetRegistry(r)
           /\ scopes' = Append(Mark(scopes, r),
                               Frame("disable", swapped, NoCfg, Registry))
    /\ lastOp' = "disable.enter"
    /\ NextStatement

\* the body of `with disable()` ends without an exception
SuspendExit ==
    /\ pc = "idle"
    /\ scopes # <<>>
    /\ Top(scopes).kind = "disable"
    /\ LET r == IF Top(scopes).swapped THEN SuspendOnExit(Registry) ELSE Registry
       IN  /\ SetRegistry(r)
           /\ scopes' = Mark(Pop(scopes), r)
    /\ lastOp' = "disable.exit"
    /\ NextStatement

\* the body of a `with` block raises: contextlib throws the exception into
\* the generator at its yield; neither generator has a try/finally around
\* the yield, so nothing after the yield runs
BodyRaises ==
    /\ pc = "idle"
    /\ scopes # <<>>
    /\ scopes' = Pop(scopes)
    /\ lastOp' = "raise"
    /\ UNCHANGED regVars
    /\ NextStatement

----------------------------------------------------------------------------
(* values and containers *)

None    == [tag |-> "None",    id |-> 0]
Scalar  == [tag |-> "scalar",  id |-> 0]
Unbound == [tag |-> "unbound", id |-> 0]
Ref(i)  == [tag |-> "ref",     id |-> i]

\* isinstance(v, pd.DataFrame) or isinstance(v, pd.Series)
IsContainer(v) == v.tag = "ref"

\* what the pandas implementation of the called method does with its input:
\* return a new table, return a new column, return some other value, mutate
\* the input in place and return None, or raise; inner tells whether the
\* implementation first calls self.copy() on its input, as many pandas
\* methods do
Behaviours ==
    [kind : {"table", "column", "inplace"}, rows : 0..MaxRows, exc : {"-"},
     inner : BOOLEAN]
    \cup [kind : {"scalar"}, rows : {0}, exc : {"-"}, inner : BOOLEAN]
    \cup [kind : {"raise"}, rows : {0}, exc : {"KeyError"}, inner : BOOLEAN]

\* what pandas' copy does on a container of class cls
CopyBehaviour(h, cls) ==
    [kind |-> IF cls = DataFrame THEN "table" ELSE "column",
     rows |-> h[1].rows, exc |-> "-", inner |-> FALSE]

\* the result of running pandas' own implementation on container inp
RunOriginal(h, inp, beh) ==
    CASE beh.kind = "table" ->
            [heap |-> Append(h, [cls |-> DataFrame, rows |-> beh.rows]),
             ret |-> Ref(Len(h) + 1), exc |-> "-"]
      [] beh.kind = "column" ->
            [heap |-> Append(h, [cls |-> Series, rows |-> beh.rows]),
             ret |-> Ref(Len(h) + 1), exc |-> "-"]
      [] beh.kind = "inplace" ->
            [heap |-> [h EXCEPT ![inp.id].rows = beh.rows],
             ret |-> None, exc |-> "-"]
      [] beh.kind = "scalar" ->
            [heap |-> h, ret |-> Scalar, exc |-> "-"]
      [] OTHER ->
            [heap |-> h, ret |-> Unbound, exc |-> beh.exc]

\* a copy that hands back the container itself
NoCopy(h, v) == [heap |-> h, ret |-> v]

\* pandas' copy(deep=True): a new container with the same content
DeepCopy(h, v) == [heap |-> Append(h, h[v.id]), ret |-> Ref(Len(h) + 1)]

----------------------------------------------------------------------------
(* pandas_execution_stats *)

\* get_execution_stats runs the method stored under the original_ prefix of
\* the class and lets whatever it raises through; when that attribute is
\* itself a wrapper the call never reaches pandas
get_execution_stats(a, h, cls, fn, input_df, beh, calculate_memory) ==
    LET target == a[cls][ORIGINAL_METHOD_PREFIX][fn]
    IN  IF target = Original
        THEN RunOriginal(h, input_df, beh) @@ [ran |-> TRUE]
        ELSE [heap |-> h, ret |-> Unbound, ran |-> FALSE,
              exc |-> IF target = Absent THEN "AttributeError"
                      ELSE "RecursionError"]

----------------------------------------------------------------------------
(* the wrapper installed by create_overide_pandas_func *)

NoCall == [cls |-> "none"]

\* locals of `wrapped` and _run_method_and_calc_stats; cfg holds the closure
\* variables verbose, silent, full_signature, copy_ok, calculate_memory
\* outer is the call whose pandas implementation made this one (NoCall for
\* a call of the caller), resume where that implementation goes on;
\* rows_before and trace record the rows of the input at the start of the
\* call and the steps the wrapper has taken
NewCall(cls, fn, cfg, beh, rows) ==
    [cls |-> cls, fn |-> fn, cfg |-> cfg, beh |-> beh,
     input_df |-> Ref(1), original_input_df |-> Unbound,
     output_df |-> Unbound, result |-> Unbound,
     calculate_memory |-> FALSE, copy_via |-> "-", raised |-> "-",
     step_stats |-> Unbound, reported |-> 0, persisted |-> 0,
     outer |-> NoCall, resume |-> "-", inner_done |-> FALSE,
     rows_before |-> rows, trace |-> <<>>]

\* the statements of _run_method_and_calc_stats in the order of the source:
\* copy (142-148), get_execution_stats (149-151), StepStats (160-169),
\* log_stats_if_needed (170), persist_execution_stats (171-174), return (176)
StepOrder == <<"capture", "exec", "stats", "report", "persist", "return">>

\* a wrapper that persists the step before it reports it
NextPcPersistFirst(p) ==
    CASE p = "stats" -> "persist"
      [] p = "persist" -> "report"
      [] p = "report" -> "return"
      [] p = "capture" -> "exec"
      [] p = "exec" -> "stats"
      [] OTHER -> "idle"

\* the statement that follows statement p
NextPc(p) ==
    IF p = "return" THEN "idle"
    ELSE StepOrder[1 + CHOOSE i \in 1..(Len(StepOrder) - 1) : StepOrder[i] = p]

\* a capture that gives up when the container has no original_copy
CaptureStepNoFallback(a, h, c) ==
    IF c.cfg.copy_ok /\ a[c.cls][ORIGINAL_METHOD_PREFIX]["copy"] # Absent
    THEN LET cp == DeepCopy(h, c.input_df)
         IN  [heap |-> cp.heap,
              call |-> [c EXCEPT !.original_input_df = cp.ret,
                                 !.copy_via = "original_copy",
                                 !.trace = Append(@, "capture")]]
    ELSE [heap |-> h, call |-> [c EXCEPT !.trace = Append(@, "capture")]]

\* lines 142-148: the pre-call copy, taken through original_copy when the
\* container has it and through copy otherwise
CaptureStep(a, h, c) ==
    IF c.cfg.copy_ok
    THEN LET cp == DeepCopy(h, c.input_df)
             via == IF a[c.cls][ORIGINAL_METHOD_PREFIX]["copy"] # Absent
                    THEN "original_copy" ELSE "copy"
         IN  [heap |-> cp.heap,
              call |-> [c EXCEPT !.original_input_df = cp.ret,
                                 !.copy_via = via,
                                 !.trace = Append(@, "capture")]]
    ELSE [heap |-> h, call |-> [c EXCEPT !.trace = Append(@, "capture")]]

\* a wrapper that swallows what the original raises
PropagatesNever(res) == FALSE

\* line 149 has no handler: an exception of get_execution_stats leaves
\* _run_method_and_calc_stats and `wrapped`
Propagates(res) == res.exc # "-"

\* a wrapper that keeps None as the after view
AfterOriginalKeepsNone(c, res) ==
    LET inp == IF c.cfg.copy_ok THEN c.original_input_df ELSE c.input_df
    IN  [c EXCEPT !.result = res.ret, !.output_df = res.ret, !.input_df = inp,
                  !.raised = res.exc,
                  !.calculate_memory = c.cfg.calculate_memory,
                  !.trace = Append(@, "exec")]

\* lines 152-158: the views handed to StepStats and the value returned
AfterOriginal(c, res) ==
    LET out == IF res.ret = None THEN c.input_df ELSE res.ret
        inp == IF c.cfg.copy_ok THEN c.original_input_df ELSE c.input_df
    IN  [c EXCEPT !.result = res.ret, !.output_df = out, !.input_df = inp,
                  !.raised = res.exc,
                  !.calculate_memory = c.cfg.calculate_memory,
                  !.trace = Append(@, "exec")]

\* the row count of the after view minus the row count of the before view
RowDelta(h, before, after) ==
    IF IsContainer(before) /\ IsContainer(after)
    THEN h[after.id].rows - h[before.id].rows
    ELSE 0

\* lines 160-169: StepStats(...) keeps the two views and what they differ by
BuildStep(h, c) ==
    [c EXCEPT !.step_stats = [tag |-> "StepStats", fn |-> c.fn,
                              input_df |-> c.input_df,
                              output_df |-> c.output_df,
                              rowDelta |-> RowDelta(h, c.input_df, c.output_df)],
              !.trace = Append(@, "stats")]

\* a wrapper that skips the Reporter when silent
ReportStepUnlessSilent(c) ==
    IF c.cfg.silent THEN [c EXCEPT !.trace = Append(@, "report")]
    ELSE [c EXCEPT !.reported = @ + 1, !.trace = Append(@, "report")]

\* line 170: step_stats.log_stats_if_needed(silent, verbose, copy_ok)
ReportStep(c) == [c EXCEPT !.reported = @ + 1, !.trace = Append(@, "report")]

\* a wrapper that persists whatever the output is
PersistsAlways(c) == TRUE

\* lines 171-174: persisted when the output is a DataFrame or a Series
Persists(c) == IsContainer(c.output_df)

\* line 176 and line 199
ReturnValue(c) == c.output_df

NoOutcome == [kind |-> "none"]

Returned(c) ==
    [kind |-> "returned", intercepted |-> TRUE, value |-> ReturnValue(c),
     result |-> c.result, exc |-> "-", raised |-> c.raised,
     built |-> c.step_stats # Unbound,
     reported |-> c.reported, persisted |-> c.persisted,
     trace |-> Append(c.trace, "return")]

Raised(c, res) ==
    [kind |-> "raised", intercepted |-> TRUE, value |-> Unbound,
     result |-> Unbound, exc |-> res.exc,
     raised |-> IF res.ran THEN res.exc ELSE "-",
     built |-> c.step_stats # Unbound,
     reported |-> c.reported, persisted |-> c.persisted,
     trace |-> Append(c.trace, "return")]

\* a call of method fn on a container of class cls, with the instrumentation
\* bypassed (the attribute is pandas' own implementation)
Plain(res) ==
    [kind |-> IF res.exc = "-" THEN "returned" ELSE "raised",
     intercepted |-> FALSE, value |-> res.ret, result |-> res.ret,
     exc |-> res.exc, raised |-> res.exc, built |-> FALSE,
     reported |-> 0, persisted |-> 0, trace |-> <<>>]

\* the pandas implementation that call c is about to run calls self.copy()
\* and finds an instrumented wrapper under that name
EntersWrapper(a, c) ==
    /\ c.beh.inner
    /\ ~c.inner_done
    /\ IsWrapper(a[c.cls][NoPrefix]["copy"])

\* the caller evaluates obj.fn(...): attribute lookup on the class
CallStart(cls, fn, rows, beh) ==
    /\ pc = "idle"
    /\ ncalls < MaxCalls
    /\ attrs[cls][NoPrefix][fn] # Absent
    /\ ncalls' = ncalls + 1
    /\ heap' = <<[cls |-> cls, rows |-> rows]>>
    /\ outcome' = NoOutcome
    /\ lastOp' = "call"
    /\ IF IsWrapper(attrs[cls][NoPrefix][fn])
       THEN /\ pc' = "capture"
            /\ call' = NewCall(cls, fn, attrs[cls][NoPrefix][fn].cfg, beh, rows)
       ELSE /\ pc' = "plain"
            /\ call' = NewCall(cls, fn, NoCfg, beh, rows)
    /\ UNCHANGED <<regVars, scopes, log, reports>>

\* pandas' implementation, running for call `call`, evaluates self.copy():
\* the attribute lookup finds the wrapper, which starts a call of its own
EnterInner ==
    /\ \/ pc = "plain"
       \/ pc = "exec" /\ attrs[call.cls][ORIGINAL_METHOD_PREFIX][call.fn] = Original
    /\ EntersWrapper(attrs, call)
    /\ call' = [NewCall(call.cls, "copy", attrs[call.cls][NoPrefix]["copy"].cfg,
                        CopyBehaviour(heap, call.cls), heap[1].rows)
                  EXCEPT !.outer = [call EXCEPT !.inner_done = TRUE],
                         !.resume = pc]
    /\ pc' = "capture"
    /\ UNCHANGED <<regVars, scopes, heap, log, reports, outcome, ncalls, lastOp>>

\* the wrapper of the inner copy returns into pandas' implementation
ReturnInner ==
    /\ pc = "return"
    /\ call.outer # NoCall
    /\ pc' = call.resume
    /\ call' = call.outer
    /\ UNCHANGED <<regVars, scopes, heap, log, reports, outcome, ncalls, lastOp>>

RunPlain ==
    /\ pc = "plain"
    /\ ~EntersWrapper(attrs, call)
    /\ LET res == RunOriginal(heap, call.input_df, call.beh)
       IN  /\ heap' = res.heap
           /\ outcome' = Plain(res)
    /\ pc' = "idle"
    /\ call' = NoCall
    /\ UNCHANGED <<regVars, scopes, log, reports, ncalls, lastOp>>

Capture ==
    /\ pc = "capture"
    /\ LET r == CaptureStep(attrs, heap, call)
       IN  /\ heap' = r.heap
           /\ call' = r.call
    /\ pc' = NextPc(pc)
    /\ UNCHANGED <<regVars, scopes, log, reports, outcome, ncalls, lastOp>>

Execute ==
    /\ pc = "exec"
    /\ ~(/\ attrs[call.cls][ORIGINAL_METHOD_PREFIX][call.fn] = Original
         /\ EntersWrapper(attrs, call))
    /\ LET res == get_execution_stats(attrs, heap, call.cls, call.fn,
                                      call.input_df, call.beh,
                                      call.cfg.calculate_memory)
       IN  /\ heap' = res.heap
           /\ IF Propagates(res)
              THEN /\ pc' = "idle"
                   /\ call' = NoCall
                   /\ outcome' = Raised(call, res)
              ELSE /\ pc' = NextPc(pc)
                   /\ call' = AfterOriginal(call, res)
                   /\ UNCHANGED outcome
    /\ UNCHANGED <<regVars, scopes, log, reports, ncalls, lastOp>>

BuildStats ==
    /\ pc = "stats"
    /\ call' = BuildStep(heap, call)
    /\ pc' = NextPc(pc)
    /\ UNCHANGED <<regVars, scopes, heap, log, reports, outcome, ncalls, lastOp>>

Report ==
    /\ pc = "report"
    /\ call' = ReportStep(call)
    /\ reports' = reports + (call'.reported - call.reported)
    /\ pc' = NextPc(pc)
    /\ UNCHANGED <<regVars, scopes, heap, log, outcome, ncalls, lastOp>>

Persist ==
    /\ pc = "persist"
    /\ IF Persists(call)
       THEN /\ log' = Append(log, [call |-> ncalls,
                                   inner |-> call.outer # NoCall])
            /\ call' = [call EXCEPT !.persisted = @ + 1,
                                    !.trace = Append(@, "persist")]
       ELSE /\ call' = [call EXCEPT !.trace = Append(@, "persist")]
            /\ UNCHANGED log
    /\ pc' = NextPc(pc)
    /\ UNCHANGED <<regVars, scopes, heap, reports, outcome, ncalls, lastOp>>

Return ==
    /\ pc = "return"
    /\ call.outer = NoCall
    /\ outcome' = Returned(call)
    /\ call' = NoCall
    /\ pc' = NextPc(pc)
    /\ UNCHANGED <<regVars, scopes, heap, log, reports, ncalls, lastOp>>

CallStep ==
    \/ \E cls \in Classes, fn \in Names, rows \in 0..MaxRows, beh \in Behaviours :
          CallStart(cls, fn, rows, beh)
    \/ RunPlain
    \/ EnterInner
    \/ ReturnInner
    \/ Capture
    \/ Execute
    \/ BuildStats
    \/ Report
    \/ Persist
    \/ Return

----------------------------------------------------------------------------

Init ==
    /\ ALREADY_ENABLED = FALSE
    /\ attrs = PandasAttrs
    /\ DATAFRAME_METHODS_TO_OVERIDE = InitialDataframeMethods
    /\ extrasLoaded = FALSE
    /\ scopes = <<>>
    /\ pc = "idle"
    /\ call = NoCall
    /\ heap = <<>>
    /\ log = <<>>
    /\ reports = 0
    /\ outcome = NoOutcome
    /\ ncalls = 0
    /\ lastOp = "none"

\* the caller of the activation API varies extras and calculate_memory; the
\* other options keep the defaults of the signatures (verbose=False,
\* silent=False, full_signature=True, copy_ok=True)
VerboseArgs       == {FALSE}
SilentArgs        == {FALSE}
FullSignatureArgs == {TRUE}
CopyOkArgs        == {TRUE}

Next ==
    \/ \E v \in VerboseArgs, s \in SilentArgs, f \in FullSignatureArgs,
          c \in CopyOkArgs, e, m \in BOOLEAN : AutoEnable(v, s, f, c, e, m)
    \/ AutoDisable
    \/ \E v \in VerboseArgs, s \in SilentArgs, f \in FullSignatureArgs,
          c \in CopyOkArgs, m \in BOOLEAN : EnableEnter(v, s, f, c, m)
    \/ EnableExit
    \/ SuspendEnter
    \/ SuspendExit
    \/ BodyRaises

Spec == Init /\ [][Next]_vars

\* the wrappers at work: the state after one auto_enable call with any
\* options, then method calls only
\* the options of the one auto_enable before the calls: full_signature and
\* calculate_memory keep the defaults of the signature, which no step of the
\* wrapper branches on
CallConfigs ==
    {cfg \in Configs : cfg.full_signature \in FullSignatureArgs
                       /\ ~cfg.calculate_memory}

InitCall ==
    /\ \E cfg \in CallConfigs :
          LET r == auto_enable([enabled |-> FALSE, attrs |-> PandasAttrs,
                                methods |-> InitialDataframeMethods,
                                extras |-> FALSE],
                               cfg.verbose, cfg.silent, cfg.full_signature,
                               cfg.copy_ok, TRUE, cfg.calculate_memory)
          IN  /\ ALREADY_ENABLED = r.enabled
              /\ attrs = r.attrs
              /\ DATAFRAME_METHODS_TO_OVERIDE = r.methods
              /\ extrasLoaded = r.extras
    /\ scopes = <<>>
    /\ pc = "idle"
    /\ call = NoCall
    /\ heap = <<>>
    /\ log = <<>>
    /\ reports = 0
    /\ outcome = NoOutcome
    /\ ncalls = 0
    /\ lastOp = "auto_enable"

SpecCall == InitCall /\ [][CallStep]_vars

\* scoped activation with method calls in the body
NextScope ==
    \/ \E v \in VerboseArgs, s \in SilentArgs, f \in FullSignatureArgs,
          c \in CopyOkArgs, m \in BOOLEAN : EnableEnter(v, s, f, c, m)
    \/ EnableExit
    \/ CallStep

SpecScope == Init /\ [][NextScope]_vars

\* auto_disable called while a method call is in flight (from another thread
\* or from a callback the original runs): the rebinding of lines 30-36 happens
\* between two statements of the wrapper
AutoDisableInFlight ==
    /\ pc # "idle"
    /\ SetRegistry(auto_disable(Registry))
    /\ lastOp' = "auto_disable"
    /\ UNCHANGED <<scopes, callVars>>

NextInFlight ==
    \/ CallStep
    \/ AutoDisableInFlight

SpecInFlight == InitCall /\ [][NextInFlight]_vars

----------------------------------------------------------------------------
(* Properties *)

\* every method of class cls is pandas' own implementation
AllOriginal(a, cls) == \A n \in Names : a[cls][NoPrefix][n] = Original

\* the methods of cls that are bound to an instrumented wrapper
WrappedOn(a, cls) == {n \in Names : IsWrapper(a[cls][NoPrefix][n])}

\* the caller's last statement closed a `with` block of the given kind
Leaves(kind) ==
    /\ scopes # <<>>
    /\ scopes' = Pop(scopes)
    /\ Top(scopes).kind = kind

\* C1: starting inactive, a second auto_enable in a row changes nothing (the
\* same operations stay wrapped, and what is stored under original_ is
\* pandas' own implementation, not a wrapper), and one auto_disable after the
\* two rebinds every wrapped operation, on pd.DataFrame and on pd.Series, to
\* its original.
C1_IdempotentActivation ==
    [][ /\ lastOp' = "auto_enable twice" =>
            /\ UNCHANGED regVars
            /\ \A cls \in Classes : \A n \in WrappedOn(attrs', cls) :
                   attrs'[cls][ORIGINAL_METHOD_PREFIX][n] = Original
        /\ (lastOp = "auto_enable twice" /\ lastOp' = "auto_disable") =>
            \A cls \in Classes : AllOriginal(attrs', cls) ]_vars

\* C2: whenever the flag is inactive and no `with` block is open, every
\* operation of pd.DataFrame and of pd.Series is bound to its original.
C2_NothingWrappedWhenInactive ==
    (~ALREADY_ENABLED /\ scopes = <<>>) =>
        \A cls \in Classes : AllOriginal(attrs, cls)

\* C3: however the body of `with enable(...)` ends, normally or by an
\* exception, once the block is left the flag is inactive and the
\* pd.DataFrame operations are bound to their originals.
C3_ScopedEnableAlwaysDisables ==
    [][ (Leaves("enable") /\ lastOp' \in {"enable.exit", "raise"}) =>
            /\ ~ALREADY_ENABLED'
            /\ AllOriginal(attrs', DataFrame) ]_vars

\* C4: what the wrapper hands back to the caller is what the original
\* implementation returned for that call, None included, and an error of the
\* original reaches the caller as the same error.
C4_Transparency ==
    (outcome.kind # "none" /\ outcome.intercepted) =>
        /\ outcome.kind = "returned" => outcome.value = outcome.result
        /\ outcome.raised # "-" =>
               (outcome.kind = "raised" /\ outcome.exc = outcome.raised)

\* the capture policy of the wrapper that served the last call
PolicyOf(cls, fn) == attrs[cls][NoPrefix][fn].cfg.copy_ok

\* C5: when the original implementation raises, the caller gets that same
\* exception, and for that call no StepStats was built, the Reporter was not
\* invoked and nothing was appended to the pipeline log.
C5_ExceptionPropagation ==
    (outcome.kind # "none" /\ outcome.intercepted /\ outcome.raised # "-") =>
        /\ outcome.kind = "raised"
        /\ outcome.exc = outcome.raised
        /\ ~outcome.built
        /\ outcome.reported = 0
        /\ outcome.persisted = 0
        /\ \A i \in 1..Len(log) : log[i].call = ncalls => log[i].inner

\* an intercepted DataFrame call under highFidelity (the pre-call copy was
\* taken) ended with the exception the original raised
C5_Witness ==
    /\ outcome.kind = "raised"
    /\ outcome.intercepted
    /\ outcome.raised = "KeyError"
    /\ Len(heap) = 2
    /\ PolicyOf(DataFrame, "dropna")

\* C6: leaving the outermost `with disable()` block that was entered while
\* enabled, with nothing but further `disable` blocks inside it, puts every
\* operation back on the wrapper it had at entry and sets the flag; leaving
\* a block that was entered while the flag was down re-wraps nothing.
C6_SuspendResumeSymmetry ==
    [][ (Leaves("disable") /\ lastOp' = "disable.exit") =>
            /\ (Top(scopes).was_enabled /\ Top(scopes).pure) =>
                   /\ ALREADY_ENABLED'
                   /\ \A cls \in Classes : \A n \in Names :
                          attrs'[cls][NoPrefix][n] =
                              Top(scopes).entry[cls][NoPrefix][n]
            /\ ~Top(scopes).was_enabled => UNCHANGED regVars ]_vars

\* an inner `disable` block has just been left while the outer one, entered
\* from the enabled state, is still open: nothing was re-wrapped, and the
\* wrappers set aside by the outer block are still waiting
C6_Witness ==
    /\ lastOp = "disable.exit"
    /\ Len(scopes) = 1
    /\ Top(scopes).kind = "disable"
    /\ Top(scopes).was_enabled
    /\ Top(scopes).pure
    /\ ~ALREADY_ENABLED
    /\ \A n \in {"dropna", "copy"} :
           /\ attrs[DataFrame][NoPrefix][n] = Original
           /\ IsWrapper(attrs[DataFrame][PATCHED_LOG_METHOD_PREFIX][n])

\* C7: while a `with disable()` block entered from the enabled state is
\* open, every operation that was wrapped at entry, on pd.DataFrame and on
\* pd.Series, is bound to its original and its wrapper is kept under the
\* patched_log_ prefix.
C7_SuspendedMeansOriginal ==
    (/\ scopes # <<>>
     /\ Top(scopes).kind = "disable"
     /\ Top(scopes).was_enabled
     /\ Top(scopes).pure) =>
        \A cls \in Classes : \A n \in WrappedOn(Top(scopes).entry, cls) :
            /\ attrs[cls][NoPrefix][n] = Original
            /\ attrs[cls][PATCHED_LOG_METHOD_PREFIX][n] =
                   Top(scopes).entry[cls][NoPrefix][n]

\* C8: auto_disable called while inactive, and entering or leaving a
\* `with disable()` block that found the flag down, leave the flag, the
\* attribute tables (bindings, stored originals, patched copies) and the
\* allow-list as they were.
C8_MismatchesAreNoOps ==
    [][ /\ (lastOp' = "auto_disable" /\ ~ALREADY_ENABLED) => UNCHANGED regVars
        /\ (lastOp' = "disable.enter" /\ ~ALREADY_ENABLED) => UNCHANGED regVars
        /\ (Leaves("disable") /\ lastOp' = "disable.exit"
              /\ ~Top(scopes).was_enabled) => UNCHANGED regVars ]_vars

\* a suspend block that found the flag down has been left after an earlier
\* activation: only such an exit leaves the flag down
C8_Witness ==
    /\ lastOp = "disable.exit"
    /\ ~ALREADY_ENABLED
    /\ Generation(DATAFRAME_METHODS_TO_OVERIDE) >= 1

\* C9: an intercepted call made inside `with enable(..., calculate_memory=m)`
\* (a block that did the installing, with no other activation statement in
\* its body) hands get_execution_stats the memory opt-in m.
C9_OptionsReachTheWrappers ==
    (/\ scopes # <<>>
     /\ Top(scopes).kind = "enable"
     /\ ~Top(scopes).was_enabled
     /\ Top(scopes).pure) =>
        (pc \in {"stats", "report", "persist", "return"} =>
            call.calculate_memory = Top(scopes).cfg.calculate_memory)

\* C10: an intercepted call whose original returned invokes the Reporter
\* (log_stats_if_needed) exactly once: not before the original has run, and
\* done by the time the wrapper returns, whatever silent, verbose and
\* copy_ok are.
C10_ReporterExactlyOnce ==
    /\ (outcome.kind = "returned" /\ outcome.intercepted) =>
           outcome.reported = 1
    /\ pc \in {"capture", "exec", "stats", "report"} => call.reported = 0
    /\ pc \in {"persist", "return"} =>
           (call.reported = 1 /\ call.result # Unbound)

\* a silent wrapper has returned to its caller after reporting once
C10_Witness ==
    /\ outcome.kind = "returned"
    /\ outcome.intercepted
    /\ outcome.reported = 1
    /\ attrs[DataFrame][NoPrefix]["dropna"].cfg.silent
    /\ ~attrs[DataFrame][NoPrefix]["dropna"].cfg.copy_ok
    /\ reports = ncalls

\* C11 as stated: every intercepted call that returns has appended exactly
\* one record to the pipeline log, whatever the type of the returned value.
C11_OneRecordPerCall ==
    (outcome.kind = "returned" /\ outcome.intercepted) => outcome.persisted = 1

\* C11, amended: an intercepted call that returns has appended exactly one
\* record when the value it returns is a DataFrame or a Series and none
\* otherwise, and the log only ever grows at its end, by the record of the
\* call in flight.
C11_OneRecordPerContainerResult ==
    [][ /\ (outcome'.kind = "returned" /\ outcome'.intercepted) =>
               outcome'.persisted = IF IsContainer(outcome'.value) THEN 1 ELSE 0
        /\ \/ log' = log
           \/ /\ Len(log') = Len(log) + 1
              /\ SubSeq(log', 1, Len(log)) = log
              /\ log'[Len(log')].call = ncalls
              /\ pc = "persist" ]_vars

\* a second intercepted call returned a value that is no container and left
\* the log at the one record of the first call
C11_Witness ==
    /\ outcome.kind = "returned"
    /\ outcome.intercepted
    /\ outcome.value = Scalar
    /\ outcome.persisted = 0
    /\ ncalls = 2
    /\ Len(log) = 1

\* the records that the current call of the caller has put in the log
RecordsOfCall == {i \in 1..Len(log) : log[i].call = ncalls}

\* C12: a call whose pandas implementation calls another instrumented
\* operation on the way (copy) never re-enters the instrumentation for that
\* inner call, and leaves exactly one record, its own, in the log.
C12_NoReentrantRecords ==
    /\ pc # "idle" => call.outer = NoCall
    /\ (outcome.kind = "returned" /\ outcome.intercepted) =>
           /\ Cardinality(RecordsOfCall) <= 1
           /\ \A i \in RecordsOfCall : ~log[i].inner

\* the StepStats of the call in flight has been built
StepBuilt == pc \in {"report", "persist", "return"}

\* C13: under copy_ok = False, when the original returns None the after view
\* of the step is the live container the caller passed, the before view is
\* that same container, and the step shows a row delta of 0 even when the
\* original changed the rows in place.
C13_InPlaceUnderLowFidelity ==
    (StepBuilt /\ ~call.cfg.copy_ok /\ call.result = None) =>
        /\ call.step_stats.output_df = Ref(1)
        /\ call.step_stats.input_df = call.step_stats.output_df
        /\ call.step_stats.rowDelta = 0

\* the original changed the rows of the caller's container in place and the
\* step built under copy_ok = False shows no change
C13_Witness ==
    /\ pc = "report"
    /\ ~call.cfg.copy_ok
    /\ call.result = None
    /\ heap[1].rows # call.rows_before
    /\ call.step_stats.rowDelta = 0

\* C14: under copy_ok = True the before view is a copy of its own, taken
\* before the original starts: it is never the caller's container nor the
\* after view, and it still has the rows the input had before the call,
\* also after the original changed the input in place.
C14_IndependentSnapshot ==
    /\ (pc = "exec" /\ call.cfg.copy_ok) =>
           /\ IsContainer(call.original_input_df)
           /\ call.original_input_df # Ref(1)
           /\ heap[call.original_input_df.id].rows = call.rows_before
    /\ (StepBuilt /\ call.cfg.copy_ok) =>
           /\ IsContainer(call.step_stats.input_df)
           /\ call.step_stats.input_df # Ref(1)
           /\ call.step_stats.input_df # call.step_stats.output_df
           /\ heap[call.step_stats.input_df.id].rows = call.rows_before

\* the original changed the caller's container in place and the before view
\* of the step still has the rows from before the call
C14_Witness ==
    /\ pc = "report"
    /\ call.cfg.copy_ok
    /\ call.result = None
    /\ heap[1].rows # call.rows_before
    /\ call.step_stats.output_df = Ref(1)
    /\ heap[call.step_stats.input_df.id].rows = call.rows_before

\* C15: under copy_ok = True, on a container whose class has no
\* original_copy the wrapper takes the pre-call copy through the container's
\* own copy, and the call goes on with that copy as its before view.
C15_CopyFallback ==
    (/\ pc \in {"exec", "stats", "report", "persist", "return"}
     /\ call.cfg.copy_ok
     /\ attrs[call.cls][ORIGINAL_METHOD_PREFIX]["copy"] = Absent) =>
        /\ call.copy_via = "copy"
        /\ IsContainer(call.original_input_df)
        /\ StepBuilt => call.step_stats.input_df = call.original_input_df

\* an intercepted pd.Series call is about to return with a before view taken
\* through the fallback
C15_Witness ==
    /\ pc = "return"
    /\ call.cls = Series
    /\ call.cfg.copy_ok
    /\ call.copy_via = "copy"
    /\ call.step_stats.input_df = Ref(2)

\* the position of statement p in the wrapper
PcIndex(p) == CHOOSE i \in 1..Len(StepOrder) : StepOrder[i] = p

\* C16: the steps of an intercepted call happen in the order capture,
\* execution of the original, construction of the step, report, persistence,
\* return, each once and each after the previous one is done; a call made by
\* the original runs while its caller is in the execution step.
C16_StepOrder ==
    /\ pc \in Range(StepOrder) =>
           /\ call.trace = SubSeq(StepOrder, 1, PcIndex(pc) - 1)
           /\ call.outer # NoCall => call.outer.trace = <<"capture">>
    /\ (outcome.kind = "returned" /\ outcome.intercepted) =>
           outcome.trace = StepOrder

\* an intercepted call has returned after all six steps and left its record
C16_Witness ==
    /\ outcome.kind = "returned"
    /\ outcome.intercepted
    /\ outcome.trace = StepOrder
    /\ outcome.reported = 1
    /\ outcome.persisted = 1

\* C17: an auto_disable that lands while a call is in flight leaves that call
\* alone (it still runs the original, builds and reports its step and
\* returns, and fails only with what the original raised), and every call
\* started after it goes straight to pandas' own implementation.
C17_DisableSparesInFlightCall ==
    [][ /\ (pc # "idle" /\ ALREADY_ENABLED /\ ~ALREADY_ENABLED') =>
               UNCHANGED callVars
        /\ (outcome'.kind = "raised" /\ outcome'.intercepted) =>
               outcome'.exc = outcome'.raised
        /\ (outcome'.kind = "returned" /\ outcome'.intercepted) =>
               (outcome'.built /\ outcome'.reported = 1)
        /\ (pc = "idle" /\ pc' # "idle" /\ ~ALREADY_ENABLED) =>
               pc' = "plain" ]_vars

\* C18: whatever the body did (auto_enable, auto_disable, further `disable`
\* blocks), when the outermost `with disable()` block that was entered while
\* enabled is left normally the flag is up and every operation is bound to
\* the wrapper it had when the block was entered.
C18_OutermostResumeRestoresEntry ==
    [][ (/\ Leaves("disable")
         /\ lastOp' = "disable.exit"
         /\ Top(scopes).was_enabled
         /\ \A i \in DOMAIN Pop(scopes) : scopes[i].kind # "disable") =>
            /\ ALREADY_ENABLED'
            /\ \A cls \in Classes : \A n \in Names :
                   attrs'[cls][NoPrefix][n] = Top(scopes).entry[cls][NoPrefix][n]
      ]_vars

\* C19: leaving `with enable(...)` normally always ends with the flag down
\* and the pd.DataFrame operations on their originals, also when the flag
\* was already up at entry; entering it while the flag is up changes
\* nothing in the registry.
C19_ScopedEnableTearsDown ==
    [][ /\ (lastOp' = "enable.enter" /\ ALREADY_ENABLED) => UNCHANGED regVars
        /\ (Leaves("enable") /\ lastOp' = "enable.exit") =>
               /\ ~ALREADY_ENABLED'
               /\ AllOriginal(attrs', DataFrame) ]_vars

\* an `enable` block entered inside the body of another one (no effective
\* auto_enable but the outer one) was left, and the outer body goes on with
\* the flag down and pd.DataFrame unwrapped
C19_Witness ==
    /\ lastOp = "enable.exit"
    /\ Len(scopes) = 1
    /\ scopes[1].kind = "enable"
    /\ ~scopes[1].was_enabled
    /\ Len(DATAFRAME_METHODS_TO_OVERIDE) = Len(InitialDataframeMethods) + 1
    /\ ~ALREADY_ENABLED
    /\ AllOriginal(attrs, DataFrame)

\* C20: the allow-list is only read: at any time it has the entries and the
\* length it had before the first auto_enable.
C20_AllowListOnlyRead ==
    DATAFRAME_METHODS_TO_OVERIDE = InitialDataframeMethods

====
